---- MODULE Spec2Model ----
(***************************************************************************)
(* ParkingQueue (src/app.py): a circular queue of parking slots.           *)
(* The queue object is the four fields size, data, front, count.  Every    *)
(* method is modelled twice: as an operator on a queue record, computed    *)
(* the way the method computes it, and as an action that applies the       *)
(* operator to the object and records the call in op.                      *)
(***************************************************************************)
EXTENDS Integers, Sequences, FiniteSets, TLC

\* ---------------------------------------------------------------- bounds
MaxSize ==
  3
MaxId ==
  2
MaxTime ==
  1
MaxOps ==
  4
MinSize ==
  0 - 1

\* ---------------------------------------------------------------- values
CarIds ==
  1 .. MaxId
Times ==
  1 .. MaxTime
\* a car dict {"id": ..., "entry_time": ...}
Cars ==
  [id : CarIds, entry_time : Times]
\* Python's None in a slot or as a return value
None ==
  [id |-> 0, entry_time |-> 0]
\* None as an index result
NoIdx ==
  0 - 1
SizeInputs ==
  MinSize .. MaxSize

VARIABLES size, data, front, count, op, enq_log, deq_log, run_base, phase

qvars ==
  <<size, data, front, count>>
hist ==
  <<enq_log, deq_log, run_base, phase>>
vars ==
  <<size, data, front, count, op, enq_log, deq_log, run_base, phase>>

\* the object as a record
Q ==
  [size |-> size, data |-> data, front |-> front, count |-> count]

\* [None] * n
Blank(n) ==
  [i \in 0 .. (n - 1) |-> None]

\* ---------------------------------------------------------------- methods
\* __init__: raises before any field is set when size < 1
New(n) ==
  IF n < 1
    THEN [q |-> [size |-> 0, data |-> Blank(0), front |-> 0, count |-> 0],
          err |-> "ValueError"]
    ELSE [q |-> [size |-> n, data |-> Blank(n), front |-> 0, count |-> 0],
          err |-> "none"]

\* a full test that lets one more car in
is_full_late(q) ==
  q.count > q.size

is_full(q) ==
  q.count = q.size

\* an empty test on the cursors: front has met the next write position
is_empty_cursors(q) ==
  q.front = (q.front + q.count) % q.size

is_empty(q) ==
  q.count = 0

\* a rear index one slot too far
enqueue_idx_next(q) ==
  (q.front + q.count + 1) % q.size

\* a rear index that forgets front
enqueue_idx_nofront(q) ==
  q.count % q.size

\* index written by enqueue
enqueue_idx(q) ==
  (q.front + q.count) % q.size

\* an enqueue that, on a full queue, overwrites the oldest car and moves front on
enqueue_overwrite(q, value) ==
  IF q.count = q.size
    THEN [q |-> [q EXCEPT !.data = [q.data EXCEPT ![q.front] = value],
                          !.front = (q.front + 1) % q.size],
          idx |-> q.front, err |-> "none"]
    ELSE LET idx == (q.front + q.count) % q.size
         IN  [q |-> [q EXCEPT !.data = [q.data EXCEPT ![idx] = value],
                              !.count = q.count + 1],
              idx |-> idx, err |-> "none"]

\* an enqueue that also refuses a car whose id is already parked
enqueue_unique(q, value) ==
  IF q.count = q.size \/ \E i \in 0 .. (q.size - 1) : q.data[i].id = value.id
    THEN [q |-> q, idx |-> NoIdx, err |-> "OverflowError"]
    ELSE LET idx == (q.front + q.count) % q.size
         IN  [q |-> [q EXCEPT !.data = [q.data EXCEPT ![idx] = value],
                              !.count = q.count + 1],
              idx |-> idx, err |-> "none"]

enqueue(q, value) ==
  IF is_full(q)
    THEN [q |-> q, idx |-> NoIdx, err |-> "OverflowError"]
    ELSE LET idx == enqueue_idx(q)
         IN  [q |-> [q EXCEPT !.data = [q.data EXCEPT ![idx] = value],
                              !.count = q.count + 1],
              idx |-> idx, err |-> "none"]

\* a front that is not moved
dequeue_front_stay(q) ==
  q.front

\* front after a dequeue
dequeue_front(q) ==
  (q.front + 1) % q.size

\* a dequeue that puts front back to 0 when it takes the last car
dequeue_reset(q) ==
  IF q.count = 0
    THEN [q |-> q, ret |-> None, err |-> "IndexError"]
    ELSE [q |-> [q EXCEPT !.data = [q.data EXCEPT ![q.front] = None],
                          !.front = IF q.count = 1 THEN 0
                                    ELSE (q.front + 1) % q.size,
                          !.count = q.count - 1],
          ret |-> q.data[q.front], err |-> "none"]

\* a dequeue that leaves the car in its slot
dequeue_keep(q) ==
  IF q.count = 0
    THEN [q |-> q, ret |-> None, err |-> "IndexError"]
    ELSE [q |-> [q EXCEPT !.front = (q.front + 1) % q.size,
                          !.count = q.count - 1],
          ret |-> q.data[q.front], err |-> "none"]

dequeue(q) ==
  IF is_empty(q)
    THEN [q |-> q, ret |-> None, err |-> "IndexError"]
    ELSE [q |-> [q EXCEPT !.data = [q.data EXCEPT ![q.front] = None],
                          !.front = dequeue_front(q),
                          !.count = q.count - 1],
          ret |-> q.data[q.front], err |-> "none"]

\* a peek at physical slot 0
peek_front_first(q) ==
  IF q.count = 0
    THEN [ret |-> None, err |-> "IndexError"]
    ELSE [ret |-> q.data[0], err |-> "none"]

peek_front(q) ==
  IF is_empty(q)
    THEN [ret |-> None, err |-> "IndexError"]
    ELSE [ret |-> q.data[q.front], err |-> "none"]

\* a clear that resets the cursors and leaves the cars in their slots
clear_lazy(q) ==
  [q EXCEPT !.front = 0, !.count = 0]

\* a clear that leaves front where it is
clear_keepfront(q) ==
  [q EXCEPT !.data = Blank(q.size), !.count = 0]

clear(q) ==
  [q EXCEPT !.data = Blank(q.size), !.front = 0, !.count = 0]

\* a linearization in physical order, from slot 0
items_of_physical(q) ==
  [i \in 1 .. q.count |-> q.data[(i - 1) % q.size]]

\* items = [self.data[(self.front + i) % self.size] for i in range(self.count)]
items_of(q) ==
  [i \in 1 .. q.count |-> q.data[(q.front + (i - 1)) % q.size]]

\* a slice that is not taken
Take_all(s, n) ==
  s

\* items[:n]
Take(s, n) ==
  SubSeq(s, 1, IF n < Len(s) THEN n ELSE Len(s))

\* for it in items: if it is not None: self.enqueue(it)
\* an exception raised by enqueue ends the loop and leaves q as it is then
RECURSIVE enqueue_each(_, _, _)
enqueue_each(q, items, i) ==
  IF i > Len(items)
    THEN [q |-> q, err |-> "none"]
    ELSE IF items[i] = None
      THEN enqueue_each(q, items, i + 1)
      ELSE LET r == enqueue(q, items[i])
           IN  IF r.err # "none"
                 THEN [q |-> r.q, err |-> r.err]
                 ELSE enqueue_each(r.q, items, i + 1)

\* a resize that empties the queue before it looks at new_size
set_size_late(q, new_size) ==
  IF new_size < 1
    THEN [q |-> [q EXCEPT !.data = Blank(q.size), !.front = 0, !.count = 0],
          err |-> "ValueError"]
    ELSE enqueue_each([size |-> new_size, data |-> Blank(new_size),
                       front |-> 0, count |-> 0],
                      Take(items_of(q), new_size), 1)

\* a resize that forgets to reset front
set_size_keepfront(q, new_size) ==
  IF new_size < 1
    THEN [q |-> q, err |-> "ValueError"]
    ELSE enqueue_each([size |-> new_size, data |-> Blank(new_size),
                       front |-> q.front, count |-> 0],
                      Take(items_of(q), new_size), 1)

\* a resize that refuses to drop cars
set_size_noshrink(q, new_size) ==
  IF new_size < 1 \/ new_size < q.count
    THEN [q |-> q, err |-> "ValueError"]
    ELSE enqueue_each([size |-> new_size, data |-> Blank(new_size),
                       front |-> 0, count |-> 0],
                      Take(items_of(q), new_size), 1)

set_size(q, new_size) ==
  IF new_size < 1
    THEN [q |-> q, err |-> "ValueError"]
    ELSE enqueue_each([size |-> new_size, data |-> Blank(new_size),
                       front |-> 0, count |-> 0],
                      Take(items_of(q), new_size), 1)

\* for i in range(self.size): first i whose car has the id
RECURSIVE find_from(_, _, _)
find_from(q, car_id, i) ==
  IF i >= q.size
    THEN NoIdx
    ELSE IF q.data[i] # None /\ q.data[i].id = car_id
      THEN i
      ELSE find_from(q, car_id, i + 1)

\* a lookup in logical order: the physical index of the first match from front
RECURSIVE find_logical(_, _, _)
find_logical(q, car_id, i) ==
  IF i >= q.count
    THEN NoIdx
    ELSE IF q.data[(q.front + i) % q.size].id = car_id
      THEN (q.front + i) % q.size
      ELSE find_logical(q, car_id, i + 1)

find_index_by_car_id_logical(q, car_id) ==
  find_logical(q, car_id, 0)

find_index_by_car_id(q, car_id) ==
  find_from(q, car_id, 0)

\* a scan without the "removed is None" test: every match is dropped and the
\* last one returned
RECURSIVE remove_scan_all(_, _, _, _, _)
remove_scan_all(items, car_id, i, new_items, removed) ==
  IF i > Len(items)
    THEN [new_items |-> new_items, removed |-> removed]
    ELSE IF items[i] # None /\ items[i].id = car_id
      THEN remove_scan_all(items, car_id, i + 1, new_items, items[i])
      ELSE remove_scan_all(items, car_id, i + 1, Append(new_items, items[i]), removed)

\* the loop over items that splits off the first match
RECURSIVE remove_scan(_, _, _, _, _)
remove_scan(items, car_id, i, new_items, removed) ==
  IF i > Len(items)
    THEN [new_items |-> new_items, removed |-> removed]
    ELSE IF items[i] # None /\ items[i].id = car_id /\ removed = None
      THEN remove_scan(items, car_id, i + 1, new_items, items[i])
      ELSE remove_scan(items, car_id, i + 1, Append(new_items, items[i]), removed)

\* a removal without the early return on a miss: it rebuilds the queue anyway
remove_by_car_id_rebuild(q, car_id) ==
  IF q.count = 0
    THEN [q |-> q, ret |-> None, err |-> "none"]
    ELSE LET s == remove_scan(items_of(q), car_id, 1, <<>>, None)
             r == enqueue_each([q EXCEPT !.data = Blank(q.size),
                                         !.front = 0,
                                         !.count = 0],
                               s.new_items, 1)
         IN  [q |-> r.q, ret |-> s.removed, err |-> r.err]

\* a removal that rebuilds without resetting front
remove_by_car_id_keepfront(q, car_id) ==
  IF q.count = 0
    THEN [q |-> q, ret |-> None, err |-> "none"]
    ELSE LET s == remove_scan(items_of(q), car_id, 1, <<>>, None)
         IN  IF s.removed = None
               THEN [q |-> q, ret |-> None, err |-> "none"]
               ELSE LET r == enqueue_each([q EXCEPT !.data = Blank(q.size),
                                                      !.count = 0],
                                          s.new_items, 1)
                    IN  [q |-> r.q, ret |-> s.removed, err |-> r.err]

remove_by_car_id(q, car_id) ==
  IF is_empty(q)
    THEN [q |-> q, ret |-> None, err |-> "none"]
    ELSE LET s == remove_scan(items_of(q), car_id, 1, <<>>, None)
         IN  IF s.removed = None
               THEN [q |-> q, ret |-> None, err |-> "none"]
               ELSE LET r == enqueue_each([q EXCEPT !.data = Blank(q.size),
                                                      !.front = 0,
                                                      !.count = 0],
                                          s.new_items, 1)
                    IN  [q |-> r.q, ret |-> s.removed, err |-> r.err]

\* ---------------------------------------------------------------- actions
SetQ(q) ==
  /\ size' = q.size
  /\ data' = q.data
  /\ front' = q.front
  /\ count' = q.count

\* the record of a call: its arguments (car, n), what it returned (ret, idx) or
\* raised (err), and front and count as they were when it was made
Call(name, car, n, ret, idx, err) ==
  [name |-> name, car |-> car, n |-> n, ret |-> ret, idx |-> idx, err |-> err,
   front0 |-> front, count0 |-> count]

\* a constructor that raised leaves no object to call
Constructed ==
  ~(op.name = "__init__" /\ op.err # "none")

Init ==
  /\ \E n \in SizeInputs :
       LET r == New(n)
       IN  /\ size = r.q.size
           /\ data = r.q.data
           /\ front = r.q.front
           /\ count = r.q.count
           /\ op = [name |-> "__init__", car |-> None, n |-> n, ret |-> None,
                     idx |-> NoIdx, err |-> r.err, front0 |-> 0, count0 |-> 0]
  /\ enq_log = <<>>
  /\ deq_log = <<>>
  /\ run_base = 0
  /\ phase = "enq"

Enqueue(value) ==
  /\ Constructed
  /\ LET r == enqueue(Q, value)
     IN  /\ SetQ(r.q)
         /\ op' = Call("enqueue", value, 0, None, r.idx, r.err)

Dequeue ==
  /\ Constructed
  /\ LET r == dequeue(Q)
     IN  /\ SetQ(r.q)
         /\ op' = Call("dequeue", None, 0, r.ret, NoIdx, r.err)

PeekFront ==
  /\ Constructed
  /\ LET r == peek_front(Q)
     IN  /\ UNCHANGED qvars
         /\ op' = Call("peek_front", None, 0, r.ret, NoIdx, r.err)

Clear ==
  /\ Constructed
  /\ SetQ(clear(Q))
  /\ op' = Call("clear", None, 0, None, NoIdx, "none")

SetSize(new_size) ==
  /\ Constructed
  /\ LET r == set_size(Q, new_size)
     IN  /\ SetQ(r.q)
         /\ op' = Call("set_size", None, new_size, None, NoIdx, r.err)

FindIndexByCarId(car_id) ==
  /\ Constructed
  /\ UNCHANGED qvars
  /\ op' = Call("find_index_by_car_id", None, car_id, None,
                find_index_by_car_id(Q, car_id), "none")

RemoveByCarId(car_id) ==
  /\ Constructed
  /\ LET r == remove_by_car_id(Q, car_id)
     IN  /\ SetQ(r.q)
         /\ op' = Call("remove_by_car_id", None, car_id, r.ret, NoIdx, r.err)

\* ------------------------------------------------ the object under any caller
Next ==
  \/ \E value \in Cars : Enqueue(value) /\ UNCHANGED hist
  \/ Dequeue /\ UNCHANGED hist
  \/ PeekFront /\ UNCHANGED hist
  \/ Clear /\ UNCHANGED hist
  \/ \E new_size \in SizeInputs : SetSize(new_size) /\ UNCHANGED hist
  \/ \E car_id \in CarIds : FindIndexByCarId(car_id) /\ UNCHANGED hist
  \/ \E car_id \in CarIds : RemoveByCarId(car_id) /\ UNCHANGED hist

Spec ==
  Init /\ [][Next]_vars

\* ------------------------------------- a caller that only enqueues and dequeues
\* enq_log / deq_log: the cars of the successful enqueues / dequeues so far.
\* A run starts at an enqueue on an empty queue; run_base is the number of
\* enqueues before it, phase tells whether the run is still enqueues only
\* ("enq"), enqueues then dequeues ("deq"), or interleaved ("mixed").
LogEnqueue(value) ==
  /\ Len(enq_log) < MaxOps
  /\ Enqueue(value)
  /\ IF op'.err = "none"
       THEN /\ enq_log' = Append(enq_log, value)
            /\ run_base' = IF count = 0 THEN Len(enq_log) ELSE run_base
            /\ phase' = IF count = 0 THEN "enq"
                        ELSE IF phase = "deq" THEN "mixed" ELSE phase
       ELSE UNCHANGED <<enq_log, run_base, phase>>
  /\ UNCHANGED deq_log

LogDequeue ==
  /\ Dequeue
  /\ IF op'.err = "none"
       THEN /\ deq_log' = Append(deq_log, op'.ret)
            /\ phase' = IF phase = "enq" THEN "deq" ELSE phase
       ELSE UNCHANGED <<deq_log, phase>>
  /\ UNCHANGED <<enq_log, run_base>>

NextFifo ==
  \/ \E value \in Cars : LogEnqueue(value)
  \/ LogDequeue

SpecFifo ==
  Init /\ [][NextFifo]_vars

\* ------------------------------------- a caller that runs the scenario script
\* A queue made with size 3, then enqueue(A), enqueue(B), enqueue(C),
\* enqueue(D), dequeue, find_index_by_car_id(C), remove_by_car_id(B),
\* set_size(1), set_size(0), in this order.  Every call of the script is
\* different, so the last call made (op) tells where the caller is; the script
\* goes on whatever a call returns or raises.  The ids A .. D are 1 .. 4 and
\* the entry time of each car is whatever the clock says.
IdA ==
  1
IdB ==
  IdA + 1
IdC ==
  IdB + 1
IdD ==
  IdC + 1
ScenarioTimes ==
  0 .. 2
ScenarioCar(car_id) ==
  {[id |-> car_id, entry_time |-> t] : t \in ScenarioTimes}

InitScenario ==
  /\ LET r == New(3)
     IN  /\ size = r.q.size
         /\ data = r.q.data
         /\ front = r.q.front
         /\ count = r.q.count
         /\ op = [name |-> "__init__", car |-> None, n |-> 3, ret |-> None,
                   idx |-> NoIdx, err |-> r.err, front0 |-> 0, count0 |-> 0]
  /\ enq_log = <<>>
  /\ deq_log = <<>>
  /\ run_base = 0
  /\ phase = "enq"

\* the last call was enqueue of the car with this id
AfterEnqueue(car_id) ==
  op.name = "enqueue" /\ op.car.id = car_id

ScriptEnqueueA ==
  /\ op.name = "__init__"
  /\ \E value \in ScenarioCar(IdA) : Enqueue(value)
  /\ UNCHANGED hist

ScriptEnqueueB ==
  /\ AfterEnqueue(IdA)
  /\ \E value \in ScenarioCar(IdB) : Enqueue(value)
  /\ UNCHANGED hist

ScriptEnqueueC ==
  /\ AfterEnqueue(IdB)
  /\ \E value \in ScenarioCar(IdC) : Enqueue(value)
  /\ UNCHANGED hist

ScriptEnqueueD ==
  /\ AfterEnqueue(IdC)
  /\ \E value \in ScenarioCar(IdD) : Enqueue(value)
  /\ UNCHANGED hist

ScriptDequeue ==
  /\ AfterEnqueue(IdD)
  /\ Dequeue
  /\ UNCHANGED hist

ScriptFindC ==
  /\ op.name = "dequeue"
  /\ FindIndexByCarId(IdC)
  /\ UNCHANGED hist

ScriptRemoveB ==
  /\ op.name = "find_index_by_car_id"
  /\ RemoveByCarId(IdB)
  /\ UNCHANGED hist

ScriptResize1 ==
  /\ op.name = "remove_by_car_id"
  /\ SetSize(1)
  /\ UNCHANGED hist

ScriptResize0 ==
  /\ op.name = "set_size"
  /\ op.n = 1
  /\ SetSize(0)
  /\ UNCHANGED hist

NextScenario ==
  \/ ScriptEnqueueA
  \/ ScriptEnqueueB
  \/ ScriptEnqueueC
  \/ ScriptEnqueueD
  \/ ScriptDequeue
  \/ ScriptFindC
  \/ ScriptRemoveB
  \/ ScriptResize1
  \/ ScriptResize0

SpecScenario ==
  InitScenario /\ [][NextScenario]_vars

\* ---------------------------------------------------------------- helpers
\* the logical (front-to-rear) order of the object: the slots met from front
\* in steps of +1 mod size, count of them
LogicalOrder ==
  [i \in 1 .. count |-> data[(front + i - 1) % size]]

Min(a, b) ==
  IF a < b THEN a ELSE b

IsPrefix(s, t) ==
  /\ Len(s) <= Len(t)
  /\ \A i \in 1 .. Len(s) : s[i] = t[i]

DistinctIds(s) ==
  \A i, j \in 1 .. Len(s) : i # j => s[i].id # s[j].id

\* the cars enqueued / dequeued in the current run
RunEnq ==
  SubSeq(enq_log, run_base + 1, Len(enq_log))
RunDeq ==
  SubSeq(deq_log, run_base + 1, Len(deq_log))

\* ---------------------------------------------------------------- claims
\* C1: FIFO law.  From an empty queue (any front), n <= size successful
\* enqueues of cars with distinct ids followed by dequeues return the cars in
\* the order they were enqueued: the dequeued cars are always a prefix of the
\* enqueued ones, and all of them once the queue is empty again.
C1_Fifo ==
  (Constructed /\ phase # "mixed" /\ DistinctIds(RunEnq))
    => /\ IsPrefix(RunDeq, RunEnq)
       /\ Len(RunEnq) <= size
       /\ (count = 0 => RunDeq = RunEnq)

\* a run of two cars that started at front # 0 in a queue of size 2 (so the
\* writes wrapped) and has been dequeued completely
C1_Witness ==
  /\ phase = "deq"
  /\ size = 2
  /\ run_base >= 1
  /\ front # 0
  /\ Len(RunEnq) = 2
  /\ DistinctIds(RunEnq)
  /\ Len(RunDeq) = 2
  /\ count = 0

\* C2: walking the slots from front in steps of +1 mod size meets exactly
\* count occupied slots and then size - count empty ones.
C2_Window ==
  Constructed =>
    \A i \in 0 .. (size - 1) :
      (data[(front + i) % size] # None) <=> (i < count)

\* a partly filled window that wraps around the end of the slot array
C2_Witness ==
  /\ Constructed
  /\ 0 < count
  /\ count < size
  /\ front + count > size

\* C3: under enqueue and dequeue calls only, on a queue created empty, count
\* is the number of successful enqueues minus the number of successful
\* dequeues, and lies in 0 .. size.
C3_Count ==
  Constructed =>
    /\ count = Len(enq_log) - Len(deq_log)
    /\ 0 <= count
    /\ count <= size

\* an enqueue refused on a full queue after cars have come and gone
C3_Witness ==
  /\ op.name = "enqueue"
  /\ op.err = "OverflowError"
  /\ Len(deq_log) >= 1
  /\ count = size

\* C4: resize preservation.  set_size(m) with m >= 1 succeeds and leaves
\* size = m, front = 0, count = min(k, m) and the first min(k, m) cars of the
\* previous logical order, in that order.
C4_Resize ==
  [][(op'.name = "set_size" /\ op'.n >= 1)
       => /\ op'.err = "none"
          /\ size' = op'.n
          /\ front' = 0
          /\ count' = Min(count, op'.n)
          /\ Len(LogicalOrder') = Min(count, op'.n)
          /\ \A i \in 1 .. Min(count, op'.n) : LogicalOrder'[i] = LogicalOrder[i]]_vars

\* a resize of a wrapped window that dropped cars
C4_Witness ==
  /\ op.name = "set_size"
  /\ op.err = "none"
  /\ op.front0 > 0
  /\ op.count0 > size
  /\ op.front0 + op.count0 > size + 1
  /\ count = size
  /\ count >= 2

\* the positions in the logical order that hold a car with the id
MatchesAt(s, car_id) ==
  {i \in 1 .. Len(s) : s[i].id = car_id}

\* the first of them
FirstAt(s, car_id) ==
  CHOOSE k \in MatchesAt(s, car_id) : \A j \in MatchesAt(s, car_id) : k <= j

\* s without its k-th element
Without(s, k) ==
  [i \in 1 .. (Len(s) - 1) |-> IF i < k THEN s[i] ELSE s[i + 1]]

\* C5: when remove_by_car_id(id) finds a match it returns the first car of
\* the logical order with that id and leaves the other cars in their previous
\* relative order, count one less, front = 0 and size unchanged.
C5_Remove ==
  [][(op'.name = "remove_by_car_id" /\ MatchesAt(LogicalOrder, op'.n) # {})
       => LET k == FirstAt(LogicalOrder, op'.n)
          IN  /\ op'.err = "none"
              /\ op'.ret = LogicalOrder[k]
              /\ LogicalOrder' = Without(LogicalOrder, k)
              /\ count' = count - 1
              /\ front' = 0
              /\ size' = size]_vars

\* a removal from the middle of a wrapped window
C5_Witness ==
  /\ op.name = "remove_by_car_id"
  /\ op.ret # None
  /\ op.front0 > 0
  /\ op.count0 = size
  /\ count = size - 1
  /\ count >= 2
  /\ data[0].id # op.n

\* the second position of the logical order that holds a car with the id
SecondAt(s, car_id) ==
  CHOOSE k \in MatchesAt(s, car_id) \ {FirstAt(s, car_id)} :
    \A j \in MatchesAt(s, car_id) \ {FirstAt(s, car_id)} : k <= j

\* what the k-th of k successive dequeue calls returns
RECURSIVE dequeue_nth(_, _)
dequeue_nth(q, k) ==
  IF k <= 1 THEN dequeue(q) ELSE dequeue_nth(dequeue(q).q, k - 1)

\* C6: with two cars of the same id in the queue, remove_by_car_id(id)
\* removes only the earlier one in FIFO order; the later one stays, one place
\* nearer to the front, and is what find_index_by_car_id(id) points at, what a
\* further remove_by_car_id(id) returns and what dequeue returns in its turn.
C6_Duplicate ==
  [][(op'.name = "remove_by_car_id"
        /\ Cardinality(MatchesAt(LogicalOrder, op'.n)) >= 2)
       => LET k1 == FirstAt(LogicalOrder, op'.n)
              k2 == SecondAt(LogicalOrder, op'.n)
              e2 == LogicalOrder[k2]
          IN  /\ count' = count - 1
              /\ op'.ret = LogicalOrder[k1]
              /\ k1 < k2
              /\ LogicalOrder'[k2 - 1] = e2
              /\ Cardinality(MatchesAt(LogicalOrder', op'.n))
                   = Cardinality(MatchesAt(LogicalOrder, op'.n)) - 1
              /\ find_index_by_car_id(Q', op'.n) # NoIdx
              /\ data'[find_index_by_car_id(Q', op'.n)] = e2
              /\ remove_by_car_id(Q', op'.n).ret = e2
              /\ dequeue_nth(Q', k2 - 1).err = "none"
              /\ dequeue_nth(Q', k2 - 1).ret = e2]_vars

\* a removal from a wrapped window after which a car with the id is still there,
\* behind a car with another id
C6_Witness ==
  /\ op.name = "remove_by_car_id"
  /\ op.ret # None
  /\ op.front0 > 0
  /\ count >= 2
  /\ data[0].id # op.n
  /\ \E i \in 1 .. (size - 1) : data[i].id = op.n

\* C7: enqueue raises OverflowError exactly when the queue is full; on a queue
\* that is not full it succeeds and parks the car, also when a car with the
\* same id is already parked.
C7_Overflow ==
  [][op'.name = "enqueue"
       => /\ (op'.err = "OverflowError") <=> (count = size)
          /\ (count # size) => /\ op'.err = "none"
                               /\ count' = count + 1
                               /\ data'[op'.idx] = op'.car]_vars

\* a successful enqueue after which two occupied slots carry the same id
C7_Witness ==
  /\ op.name = "enqueue"
  /\ op.err = "none"
  /\ \E i \in 0 .. (size - 1) : i # op.idx /\ data[i].id = op.car.id

\* C8: dequeue and peek_front raise IndexError exactly when count = 0.
C8_Empty ==
  [][op'.name \in {"dequeue", "peek_front"}
       => /\ (op'.err = "IndexError") <=> (count = 0)
          /\ (count # 0) => (op'.err = "none" /\ op'.ret # None)]_vars

\* a dequeue refused on an emptied queue whose front is not 0
C8_Witness ==
  /\ op.name = "dequeue"
  /\ op.err = "IndexError"
  /\ front # 0

\* C9: construction and set_size raise ValueError exactly when the size asked
\* for is < 1; set_size with any size >= 1 succeeds, whatever count is.
C9_Capacity ==
  /\ [](op.name = "__init__"
          => /\ (op.err = "ValueError") <=> (op.n < 1)
             /\ (op.n >= 1) => (op.err = "none" /\ size = op.n))
  /\ [][op'.name = "set_size"
          => /\ (op'.err = "ValueError") <=> (op'.n < 1)
             /\ (op'.n >= 1) => (op'.err = "none" /\ size' = op'.n)]_vars

\* a successful set_size to less than the number of cars parked
C9_Witness ==
  /\ op.name = "set_size"
  /\ op.err = "none"
  /\ op.n < op.count0
  /\ size = op.n

\* the physical indices whose slot holds a car with the id
SlotsOf(car_id) ==
  {i \in 0 .. (size - 1) : data[i] # None /\ data[i].id = car_id}

\* C10: find_index_by_car_id(id) returns the lowest physical index whose slot
\* holds a car with that id, None if there is none, and changes no state.
C10_Find ==
  [][op'.name = "find_index_by_car_id"
       => /\ UNCHANGED qvars
          /\ op'.err = "none"
          /\ (SlotsOf(op'.n) = {}) => (op'.idx = NoIdx)
          /\ (SlotsOf(op'.n) # {})
               => /\ op'.idx \in SlotsOf(op'.n)
                  /\ \A i \in SlotsOf(op'.n) : op'.idx <= i]_vars

\* a lookup among duplicates in a wrapped window that returned a slot other
\* than that of the first match in FIFO order
C10_Witness ==
  /\ op.name = "find_index_by_car_id"
  /\ op.idx # NoIdx
  /\ front + count > size
  /\ (front + FirstAt(LogicalOrder, op.n) - 1) % size # op.idx

\* C11: clear always succeeds and leaves every slot empty, front = 0,
\* count = 0 and size unchanged, so is_empty holds; a second clear changes
\* nothing more.
C11_Clear ==
  [][op'.name = "clear"
       => /\ op'.err = "none"
          /\ size' = size
          /\ DOMAIN data' = 0 .. (size - 1)
          /\ \A i \in 0 .. (size - 1) : data'[i] = None
          /\ front' = 0
          /\ count' = 0
          /\ is_empty(Q')
          /\ clear(Q') = Q']_vars

\* a clear of a queue that held cars and whose front was not 0
C11_Witness ==
  /\ op.name = "clear"
  /\ op.count0 > 0
  /\ op.front0 > 0
  /\ count = 0
  /\ front = 0

\* C12: on a non-empty queue peek_front returns the car in slot front and
\* changes nothing; a second peek_front returns the same car and so does a
\* dequeue that follows.
C12_Peek ==
  [][(op'.name = "peek_front" /\ count > 0)
       => /\ op'.err = "none"
          /\ op'.ret = data[front]
          /\ op'.ret # None
          /\ UNCHANGED qvars
          /\ peek_front(Q').ret = op'.ret
          /\ dequeue(Q').err = "none"
          /\ dequeue(Q').ret = op'.ret]_vars

\* a peek at a front that is not slot 0, with several cars parked
C12_Witness ==
  /\ op.name = "peek_front"
  /\ op.err = "none"
  /\ front > 0
  /\ count >= 2
  /\ op.ret = data[front]

\* C13: remove_by_car_id(id) on a queue without a car of that id (empty or
\* not) returns None and leaves size, data, front and count as they were.
C13_Miss ==
  [][(op'.name = "remove_by_car_id" /\ MatchesAt(LogicalOrder, op'.n) = {})
       => /\ op'.ret = None
          /\ op'.err = "none"
          /\ UNCHANGED qvars]_vars

\* a miss on a non-empty queue whose front is not 0
C13_Witness ==
  /\ op.name = "remove_by_car_id"
  /\ op.ret = None
  /\ count > 0
  /\ front > 0
  /\ front = op.front0
  /\ count = op.count0

\* C14: only dequeue advances front.  A successful dequeue moves front one
\* slot on; every other step leaves front as it is or, when it rebuilds the
\* queue (clear, a successful set_size, a remove_by_car_id that found a car),
\* resets it to 0; no failing call and no enqueue, peek_front or
\* find_index_by_car_id changes it.
C14_Front ==
  [][/\ (op'.name = "dequeue" /\ op'.err = "none")
          => front' = (front + 1) % size
     /\ (op'.name # "dequeue" \/ op'.err # "none")
          => (front' = front \/ front' = 0)
     /\ (op'.name \in {"enqueue", "peek_front", "find_index_by_car_id"}
           \/ op'.err # "none"
           \/ (op'.name = "remove_by_car_id" /\ op'.ret = None))
          => front' = front]_vars

\* a queue with front # 0 that is full after an enqueue: front stayed
C14_Witness ==
  /\ op.name = "enqueue"
  /\ op.err = "none"
  /\ op.front0 > 0
  /\ front = op.front0
  /\ count = size

\* C15: size >= 1, data has exactly size slots, front is in 0 .. size - 1
\* and count in 0 .. size.
C15_Shape ==
  Constructed =>
    /\ size >= 1
    /\ DOMAIN data = 0 .. (size - 1)
    /\ front \in 0 .. (size - 1)
    /\ count \in 0 .. size

\* right after a resize to a size that the old front would not fit in
C15_Witness ==
  /\ op.name = "set_size"
  /\ op.err = "none"
  /\ op.front0 >= size
  /\ count >= 1

\* the ids of the cars of the queue, front to rear
IdsInOrder ==
  [i \in 1 .. count |-> LogicalOrder[i].id]

\* C16: the scenario, call by call.  On a queue made with size 3, enqueue(A),
\* enqueue(B), enqueue(C) succeed and enqueue(D) raises OverflowError; dequeue
\* returns A and leaves count = 2; find_index_by_car_id(C) returns 2;
\* remove_by_car_id(B) returns B and leaves [C]; set_size(1) leaves [C];
\* set_size(0) raises ValueError.
C16_Scenario ==
  /\ (op.name = "__init__") => (op.err = "none" /\ size = 3 /\ count = 0)
  /\ AfterEnqueue(IdA)
       => (op.err = "none" /\ size = 3 /\ IdsInOrder = <<IdA>>)
  /\ AfterEnqueue(IdB)
       => (op.err = "none" /\ size = 3 /\ IdsInOrder = <<IdA, IdB>>)
  /\ AfterEnqueue(IdC)
       => (op.err = "none" /\ size = 3 /\ IdsInOrder = <<IdA, IdB, IdC>>)
  /\ AfterEnqueue(IdD)
       => (op.err = "OverflowError" /\ size = 3
           /\ IdsInOrder = <<IdA, IdB, IdC>>)
  /\ (op.name = "dequeue")
       => (op.err = "none" /\ op.ret.id = IdA /\ count = 2
           /\ IdsInOrder = <<IdB, IdC>>)
  /\ (op.name = "find_index_by_car_id")
       => (op.idx = 2 /\ data[op.idx].id = IdC /\ IdsInOrder = <<IdB, IdC>>)
  /\ (op.name = "remove_by_car_id")
       => (op.err = "none" /\ op.ret.id = IdB /\ size = 3
           /\ IdsInOrder = <<IdC>>)
  /\ (op.name = "set_size" /\ op.n = 1)
       => (op.err = "none" /\ size = 1 /\ IdsInOrder = <<IdC>>)
  /\ (op.name = "set_size" /\ op.n = 0)
       => (op.err = "ValueError" /\ size = 1 /\ IdsInOrder = <<IdC>>)

\* the end of the script: set_size(0) was refused
C16_Witness ==
  /\ op.name = "set_size"
  /\ op.n = 0
  /\ op.err = "ValueError"
  /\ count = 1

\* C17: a successful enqueue writes the car into slot (front + count) mod size,
\* which was empty, returns that index and adds 1 to count; front, size and
\* every other slot stay as they were.
C17_Enqueue ==
  [][(op'.name = "enqueue" /\ op'.err = "none")
       => /\ op'.idx = (front + count) % size
          /\ data[op'.idx] = None
          /\ data'[op'.idx] = op'.car
          /\ \A i \in 0 .. (size - 1) : i # op'.idx => data'[i] = data[i]
          /\ DOMAIN data' = DOMAIN data
          /\ count' = count + 1
          /\ front' = front
          /\ size' = size]_vars

\* an enqueue that wrapped: the slot written lies before front
C17_Witness ==
  /\ op.name = "enqueue"
  /\ op.err = "none"
  /\ op.idx < front
  /\ data[op.idx] = op.car

\* C18: a successful dequeue returns the car of slot front, empties that slot,
\* moves front to (front + 1) mod size and takes 1 from count; size and every
\* other slot stay as they were, and front is not put back to 0 when the queue
\* becomes empty.
C18_Dequeue ==
  [][(op'.name = "dequeue" /\ op'.err = "none")
       => /\ op'.ret = data[front]
          /\ op'.ret # None
          /\ data'[front] = None
          /\ \A i \in 0 .. (size - 1) : i # front => data'[i] = data[i]
          /\ DOMAIN data' = DOMAIN data
          /\ front' = (front + 1) % size
          /\ (front = size - 1) => (front' = 0)
          /\ (front < size - 1) => (front' = front + 1)
          /\ count' = count - 1
          /\ size' = size]_vars

\* a dequeue that emptied the queue and left front elsewhere than 0
C18_Witness ==
  /\ op.name = "dequeue"
  /\ op.err = "none"
  /\ count = 0
  /\ front # 0

\* C19: a call that raises leaves size, data, front and count as they were;
\* the calls that raise are enqueue on a full queue, dequeue and peek_front on
\* an empty one and set_size with a size < 1.
C19_Failing ==
  [][(op'.err # "none")
       => /\ UNCHANGED qvars
          /\ \/ (op'.name = "enqueue" /\ op'.err = "OverflowError" /\ count = size)
             \/ (op'.name \in {"dequeue", "peek_front"} /\ op'.err = "IndexError"
                   /\ count = 0)
             \/ (op'.name = "set_size" /\ op'.err = "ValueError" /\ op'.n < 1)]_vars

\* a set_size refused on a queue with cars and front # 0, which it left alone
C19_Witness ==
  /\ op.name = "set_size"
  /\ op.err = "ValueError"
  /\ count > 0
  /\ front > 0
  /\ count = op.count0
  /\ front = op.front0

\* C20: the enqueues that set_size (with a size >= 1) and remove_by_car_id
\* make to rebuild the queue never find it full: neither call ends in
\* OverflowError, and the rebuilt queue holds every car handed to the loop.
C20_Rebuild ==
  [][/\ (op'.name = "set_size" /\ op'.n >= 1)
          => /\ op'.err = "none"
             /\ set_size(Q, op'.n).err = "none"
             /\ count' = Min(count, op'.n)
     /\ (op'.name = "remove_by_car_id")
          => /\ op'.err = "none"
             /\ remove_by_car_id(Q, op'.n).err = "none"
             /\ count' \in {count, count - 1}]_vars

\* a resize whose rebuild filled the new queue to the last slot
C20_Witness ==
  /\ op.name = "set_size"
  /\ op.err = "none"
  /\ op.count0 >= size
  /\ count = size
  /\ size >= 2

\* the ids of the occupied slots are pairwise distinct
UniqueIds ==
  \A i, j \in 0 .. (size - 1) :
    (i # j /\ data[i] # None /\ data[j] # None) => data[i].id # data[j].id

\* C21: lookup and removal agree on membership.  find_index_by_car_id(id)
\* returns an index exactly when a car of the logical queue has that id, which
\* is exactly when remove_by_car_id(id) would return a car; and when the ids
\* of the occupied slots are pairwise distinct, the car at the index returned
\* is the car remove_by_car_id would return.
C21_Membership ==
  Constructed =>
    \A car_id \in CarIds :
      LET idx == find_index_by_car_id(Q, car_id)
          rem == remove_by_car_id(Q, car_id)
      IN  /\ (idx # NoIdx) <=> (MatchesAt(LogicalOrder, car_id) # {})
          /\ (idx # NoIdx) <=> (rem.ret # None)
          /\ (idx # NoIdx) => (idx \in 0 .. (size - 1) /\ data[idx].id = car_id)
          /\ (UniqueIds /\ idx # NoIdx) => data[idx] = rem.ret

\* right after a dequeue that left a car behind: the id that left is no longer
\* found nor removable, the id of the car still parked is found at its slot
C21_Witness ==
  /\ op.name = "dequeue"
  /\ op.err = "none"
  /\ count > 0
  /\ front > 0
  /\ find_index_by_car_id(Q, op.ret.id) = NoIdx
  /\ remove_by_car_id(Q, op.ret.id).ret = None
  /\ UniqueIds
  /\ find_index_by_car_id(Q, data[front].id) = front

====
